---- MODULE Spec2Model ----
(***************************************************************************)
(* Failure-normalisation layer of the tour REST backend: AppError,         *)
(* catchAsync, and the global error responder (errorController) with its   *)
(* production translators, driven by one request at a time.                *)
(*                                                                         *)
(* Strings are sequences of tokens (a token is a TLA+ string): a template  *)
(* literal is the concatenation of its pieces, and the raw driver message  *)
(* (errmsg) is a sequence of one-character tokens so that the regular      *)
(* expression of handleDuplicateFieldsDB can be run on it.                 *)
(*                                                                         *)
(* An error object is a record with the same fields for every shape.       *)
(* JavaScript `undefined` is 0 for numbers, "" for status/name/stack,      *)
(* FALSE for isOperational and Undef for token strings (all falsy, which   *)
(* is the only thing the code tests).  message and stack of an Error are   *)
(* own NON-enumerable properties; name is an own enumerable property when  *)
(* the constructor assigns it (nameOwn) and is otherwise inherited from    *)
(* the class prototype.                                                    *)
(***************************************************************************)
EXTENDS Integers, Sequences, FiniteSets, TLC

\* ------------------------------------------------------------------ bounds
MaxErrmsgLen == 4
MaxSubErrors == 2

\* ------------------------------------------------------------- JS values
Undef == <<"#undefined">>

\* `${x}` of a template literal
Str(x) == IF x = Undef THEN <<"undefined">> ELSE x

\* Array.prototype.join renders undefined elements as the empty string
JoinStr(x) == IF x = Undef THEN <<>> ELSE x

RECURSIVE join(_, _)
join(arr, sep) ==
  IF arr = <<>> THEN <<>>
  ELSE IF Len(arr) = 1 THEN JoinStr(arr[1])
  ELSE JoinStr(arr[1]) \o <<sep>> \o join(Tail(arr), sep)

RECURSIVE LeadingDigit(_)
LeadingDigit(n) == IF n < 10 THEN n ELSE LeadingDigit(n \div 10)

\* `${statusCode}`.startsWith("4")   (0 stands for undefined: "undefined")
startsWith4(code) == code # 0 /\ LeadingDigit(code) = 4

\* new Error(message): message and stack own non-enumerable, name inherited
NewError(name, nameOwn, message) ==
  [name |-> name, nameOwn |-> nameOwn, message |-> message, stack |-> "stack",
   statusCode |-> 0, status |-> "", isOperational |-> FALSE,
   code |-> 0, errmsg |-> Undef, path |-> Undef, value |-> Undef,
   hasErrors |-> FALSE, errors |-> <<>>]

NoError == [NewError("", FALSE, Undef) EXCEPT !.stack = ""]

\* ---------------------------------------------------------------- AppError
AppError_StatusFrom400(msg, code) ==
  [NewError("Error", FALSE, msg) EXCEPT
     !.statusCode = code,
     !.status = IF code >= 400 THEN "fail" ELSE "error",
     !.isOperational = TRUE]

AppError(msg, code) ==
  [NewError("Error", FALSE, msg) EXCEPT
     !.statusCode = code,
     !.status = IF startsWith4(code) THEN "fail" ELSE "error",
     !.isOperational = TRUE]


\* ------------------------------------------------------- errorController
GenericMessage == <<"Something went very wrong!">>

\* res.status(code).json(body): JSON.stringify drops the keys whose value is
\* undefined.  body.keys are the keys the object literal names.
json(code, body) ==
  [statusCode |-> code,
   keys |-> {k \in body.keys :
               \/ k = "status" /\ body.status # ""
               \/ k = "message" /\ body.message # Undef
               \/ k = "stack" /\ body.stack # ""
               \/ k = "error"},
   status |-> body.status,
   message |-> body.message,
   stack |-> body.stack,
   error |-> body.error]

NoResponse ==
  [statusCode |-> 0, keys |-> {}, status |-> "", message |-> Undef,
   stack |-> "", error |-> NoError]

sendErrorDev(err) ==
  json(err.statusCode,
       [keys |-> {"status", "error", "message", "stack"},
        status |-> err.status, error |-> err,
        message |-> err.message, stack |-> err.stack])

sendErrorProd_NoOperationalCheck(err) ==
  json(err.statusCode,
       [keys |-> {"status", "message"},
        status |-> err.status, error |-> NoError,
        message |-> err.message, stack |-> ""])

sendErrorProd_Verbose(err) == sendErrorDev(err)

sendErrorProd(err) ==
  IF err.isOperational
  THEN json(err.statusCode,
            [keys |-> {"status", "message"},
             status |-> err.status, error |-> NoError,
             message |-> err.message, stack |-> ""])
  ELSE json(500,
            [keys |-> {"status", "message"},
             status |-> "error", error |-> NoError,
             message |-> GenericMessage, stack |-> ""])

\* a translator either returns an AppError or throws (a TypeError)
Returned(e) == [threw |-> FALSE, error |-> e]
Thrown == [threw |-> TRUE, error |-> NoError]

handleCastErrorDB(err) ==
  Returned(AppError(<<"Invalid ">> \o Str(err.path) \o <<": ">>
                      \o Str(err.value) \o <<".">>, 400))

\* /(["'])(\\?.)*?\1/ : after the opening quote c at the loop position pos,
\* the lazy star first tries the closing \1, then one more (\\?.) with the
\* greedy \\? taken first and given up only when nothing after it matches.
\* The result is the index of the closing quote, 0 when there is none.
Quotes == {"\"", "'"}

RECURSIVE LazyStar(_, _, _)
LazyStar(s, pos, c) ==
  IF pos > Len(s) THEN 0
  ELSE IF s[pos] = c THEN pos
  ELSE LET escaped == IF s[pos] = "\\" /\ pos + 1 <= Len(s)
                      THEN LazyStar(s, pos + 2, c) ELSE 0
       IN IF escaped # 0 THEN escaped ELSE LazyStar(s, pos + 1, c)

\* String.prototype.match without the g flag: the leftmost match, element
\* [0] of the result; <<>> stands for null (a match has at least two chars)
match(s) ==
  LET starts == {i \in 1..Len(s) : s[i] \in Quotes /\ LazyStar(s, i + 1, s[i]) # 0}
  IN IF starts = {} THEN <<>>
     ELSE LET i == CHOOSE x \in starts : \A y \in starts : x <= y
          IN SubSeq(s, i, LazyStar(s, i + 1, s[i]))

handleDuplicateFieldsDB_StripQuotes(err) ==
  IF err.errmsg = Undef \/ match(err.errmsg) = <<>> THEN Thrown
  ELSE LET m == match(err.errmsg)
       IN Returned(AppError(<<"Duplicate field value: ">>
                              \o SubSeq(m, 2, Len(m) - 1)
                              \o <<". Please use another value!">>, 400))

handleDuplicateFieldsDB(err) ==
  IF err.errmsg = Undef \/ match(err.errmsg) = <<>> THEN Thrown
  ELSE Returned(AppError(<<"Duplicate field value: ">> \o match(err.errmsg)
                           \o <<". Please use another value!">>, 400))

\* Object.values(err.errors).map(el => el.message): err.errors is kept as the
\* sequence of the sub-errors' messages in the mapping's order
handleValidationErrorDB(err) ==
  IF ~err.hasErrors THEN Thrown
  ELSE Returned(AppError(<<"Invalid input data. ">> \o join(err.errors, ". "), 400))

\* err.statusCode = err.statusCode || 500; err.status = err.status || "error"
baselineNormalization_NoDefaults(err) == err

baselineNormalization(err) ==
  [err EXCEPT !.statusCode = IF @ = 0 THEN 500 ELSE @,
              !.status = IF @ = "" THEN "error" ELSE @]

\* let error = { ...err }: own enumerable properties only
spread(err) ==
  [err EXCEPT !.message = Undef, !.stack = "",
              !.name = IF err.nameOwn THEN @ ELSE ""]

\* the three `if`s of the production branch, in order; a throw ends it
translate_EveryRuleOnOriginal(error0) ==
  LET r1 == IF error0.name = "CastError" THEN handleCastErrorDB(error0)
            ELSE Returned(error0)
      r2 == IF r1.threw THEN r1
            ELSE IF error0.code = 11000 THEN handleDuplicateFieldsDB(error0)
            ELSE r1
      r3 == IF r2.threw THEN r2
            ELSE IF error0.name = "ValidationError"
                 THEN handleValidationErrorDB(error0)
            ELSE r2
  IN r3

translate(error0) ==
  LET r1 == IF error0.name = "CastError" THEN handleCastErrorDB(error0)
            ELSE Returned(error0)
      r2 == IF r1.threw THEN r1
            ELSE IF r1.error.code = 11000 THEN handleDuplicateFieldsDB(r1.error)
            ELSE r1
      r3 == IF r2.threw THEN r2
            ELSE IF r2.error.name = "ValidationError"
                 THEN handleValidationErrorDB(r2.error)
            ELSE r2
  IN r3

\* module.exports = (err, req, res, next) => {...}.  headersSent: a response
\* was already written for the request, so res.json throws.
\* fault: "none", "translate" (a translator threw) or "headers".
globalErrorHandler(err0, env, headersSent) ==
  LET err == baselineNormalization(err0)
      base == [err |-> err, fault |-> "none", sent |-> FALSE,
               translated |-> err, resp |-> NoResponse]
  IN IF env = "development"
     THEN IF headersSent THEN [base EXCEPT !.fault = "headers"]
          ELSE [base EXCEPT !.sent = TRUE, !.resp = sendErrorDev(err)]
     ELSE IF env = "production"
     THEN LET t == translate(spread(err))
          IN IF t.threw THEN [base EXCEPT !.fault = "translate"]
             ELSE IF headersSent
                  THEN [base EXCEPT !.fault = "headers", !.translated = t.error]
             ELSE [base EXCEPT !.sent = TRUE, !.translated = t.error,
                               !.resp = sendErrorProd(t.error)]
     ELSE base

NoResult ==
  [err |-> NoError, fault |-> "none", sent |-> FALSE,
   translated |-> NoError, resp |-> NoResponse]

\* ------------------------------------------------------ errors that occur
Messages == {<<"No tour found with that ID">>, <<"Please provide email and password!">>}
StatusCodes == {400, 404, 500}
Paths == {<<"id">>, <<"price">>}
Values == {<<"abc">>, <<"12x">>}
SubMessages == {<<"Name is required">>, <<"Price must be positive">>}
Alphabet == {"a", "\"", "'", "\\"}

SeqsUpTo(S, n) == UNION {[1..k -> S] : k \in 0..n}

\* operational errors built by handlers: new AppError(message, statusCode)
AppErrors == {AppError(m, c) : m \in Messages, c \in StatusCodes}

\* built-in errors (programming defects), and an Error given status and
\* statusCode by hand as the first version of the unhandled-route handler does
PlainErrors ==
  {[NewError(n, FALSE, m) EXCEPT !.statusCode = c, !.status = st] :
     n \in {"Error", "TypeError"}, m \in Messages, c \in {0, 404}, st \in {"", "fail"}}

\* storage errors.  path, value, code, errmsg and errors are data properties
\* set on the instance; name is either assigned on the instance (nameOwn) or
\* defined on the class prototype, as for the built-in Error classes
CastErrors ==
  {[NewError("CastError", own, <<"Cast to ObjectId failed">>) EXCEPT
      !.path = p, !.value = v] : own \in BOOLEAN, p \in Paths, v \in Values}

DuplicateErrors ==
  {[NewError("MongoError", own, <<"E11000 duplicate key error">>) EXCEPT
      !.code = 11000, !.errmsg = m] :
     own \in BOOLEAN, m \in SeqsUpTo(Alphabet, MaxErrmsgLen) \cup {Undef}}

ValidationErrors ==
  {[NewError("ValidationError", own, <<"Validation failed">>) EXCEPT
      !.hasErrors = TRUE, !.errors = es] :
     own \in BOOLEAN, es \in SeqsUpTo(SubMessages, MaxSubErrors)}
  \cup {NewError("ValidationError", own, <<"Validation failed">>) : own \in BOOLEAN}

Failures == AppErrors \cup PlainErrors \cup CastErrors \cup DuplicateErrors
              \cup ValidationErrors

\* errors that have the marks of several storage errors at once
MixedErrors ==
  {[NewError(n, own, <<"storage error">>) EXCEPT
      !.path = <<"id">>, !.value = <<"abc">>, !.code = c, !.errmsg = m,
      !.hasErrors = h, !.errors = IF h THEN <<<<"Name is required">>>> ELSE <<>>] :
     n \in {"CastError", "ValidationError", "MongoError"}, own \in BOOLEAN,
     c \in {0, 11000}, m \in {Undef, <<"a", "\"", "a", "\"">>},
     h \in BOOLEAN}

\* fn(...).catch of undefined
CatchOfUndefined ==
  NewError("TypeError", FALSE, <<"Cannot read properties of undefined (reading 'catch')">>)

\* -------------------------------------------------------------- APIFeatures
\* numbers as JavaScript has them: NaN or an integer value
NaN == [nan |-> TRUE, val |-> 0]
num(n) == [nan |-> FALSE, val |-> n]

IsDigit(c) == c \in {"0", "1", "2", "3", "4", "5", "6", "7", "8", "9"}

DigitVal(c) ==
  CASE c = "0" -> 0 [] c = "1" -> 1 [] c = "2" -> 2 [] c = "3" -> 3
    [] c = "4" -> 4 [] c = "5" -> 5 [] c = "6" -> 6 [] c = "7" -> 7
    [] c = "8" -> 8 [] c = "9" -> 9

AllDigits(s) == \A i \in 1..Len(s) : IsDigit(s[i])

RECURSIVE DecimalValue(_)
DecimalValue(s) ==
  IF s = <<>> THEN 0
  ELSE DecimalValue(SubSeq(s, 1, Len(s) - 1)) * 10 + DigitVal(s[Len(s)])

\* Number(v) and v * 1 of a query parameter: undefined gives NaN, the empty
\* string 0, a decimal numeral (with an optional sign) its value, any other
\* string NaN
Number(v) ==
  IF v = Undef THEN NaN
  ELSE IF v = <<>> THEN num(0)
  ELSE IF AllDigits(v) THEN num(DecimalValue(v))
  ELSE IF v[1] = "-" /\ Len(v) > 1 /\ AllDigits(Tail(v))
         THEN num(0 - DecimalValue(Tail(v)))
  ELSE NaN

\* n || d on a number: NaN and 0 are falsy
OrDefault(n, d) == IF n.nan \/ n.val = 0 THEN d ELSE n.val

\* if (v) on a query parameter: undefined and the empty string are falsy
Truthy(v) == v # Undef /\ v # <<>>

\* String.prototype.split(sep)
RECURSIVE split(_, _)
split(s, sep) ==
  IF \A i \in 1..Len(s) : s[i] # sep THEN <<s>>
  ELSE LET i == CHOOSE j \in 1..Len(s) :
                  s[j] = sep /\ \A k \in 1..(j - 1) : s[k] # sep
       IN <<SubSeq(s, 1, i - 1)>> \o split(SubSeq(s, i + 1, Len(s)), sep)

\* the names a request's query string is read by
QueryKeys == {"page", "sort", "limit", "fields", "price", "minPrice",
              "maxPrice", "difficulty", "duration", "minDuration",
              "maxDuration", "name"}

excludedFields == {"page", "sort", "limit", "fields"}

\* const queryObj = { ...this.queryString } without the excluded fields
queryObj(queryString) ==
  [k \in {q \in QueryKeys : queryString[q] # Undef} \ excludedFields |->
     queryString[k]]

\* const { price, ... } = queryObj
Get(obj, k) == IF k \in DOMAIN obj THEN obj[k] ELSE Undef

\* entries of the filter handed to find
NoBound == [has |-> FALSE, nan |-> FALSE, val |-> 0]
Bound(n) == [has |-> TRUE, nan |-> n.nan, val |-> n.val]
Exact(v) == [kind |-> "exact", value |-> v, gte |-> NoBound, lte |-> NoBound]
Range(gte, lte) == [kind |-> "range", value |-> Undef, gte |-> gte, lte |-> lte]
NoEntry == [kind |-> "none", value |-> Undef, gte |-> NoBound, lte |-> NoBound]

\* the entry built from an exact value and its two range parameters
rangeEntry_ExactWins(exact, min, max) ==
  IF Truthy(exact) THEN Exact(exact)
  ELSE IF Truthy(min) /\ Truthy(max)
         THEN Range(Bound(Number(min)), Bound(Number(max)))
  ELSE IF Truthy(min) THEN Range(Bound(Number(min)), NoBound)
  ELSE IF Truthy(max) THEN Range(NoBound, Bound(Number(max)))
  ELSE NoEntry

rangeEntry_ClosedOnly(exact, min, max) ==
  IF Truthy(min) /\ Truthy(max)
    THEN Range(Bound(Number(min)), Bound(Number(max)))
  ELSE IF Truthy(exact) THEN Exact(exact)
  ELSE NoEntry

rangeEntry(exact, min, max) ==
  IF Truthy(min) /\ Truthy(max)
    THEN Range(Bound(Number(min)), Bound(Number(max)))
  ELSE IF Truthy(min) THEN Range(Bound(Number(min)), NoBound)
  ELSE IF Truthy(max) THEN Range(NoBound, Bound(Number(max)))
  ELSE IF Truthy(exact) THEN Exact(exact)
  ELSE NoEntry

\* const newQuery = {} and the assignments to it
newQuery_PassThrough(obj) == [k \in DOMAIN obj |-> Exact(obj[k])]

newQuery(obj) ==
  LET entry == [k \in {"difficulty", "duration", "price"} |->
        CASE k = "difficulty" ->
               IF Truthy(Get(obj, "difficulty"))
                 THEN Exact(Get(obj, "difficulty")) ELSE NoEntry
          [] k = "duration" ->
               rangeEntry(Get(obj, "duration"), Get(obj, "minDuration"),
                          Get(obj, "maxDuration"))
          [] k = "price" ->
               rangeEntry(Get(obj, "price"), Get(obj, "minPrice"),
                          Get(obj, "maxPrice"))]
  IN [k \in {q \in DOMAIN entry : entry[q] # NoEntry} |-> entry[k]]

\* Tour.find(): a query with no conditions and no options, not yet run
NoOption == [set |-> FALSE, n |-> 0]
Option(n) == [set |-> TRUE, n |-> n]

find ==
  [filter |-> [k \in {} |-> NoEntry], sort |-> Undef, select |-> Undef,
   skip |-> NoOption, limit |-> NoOption]

\* Query.find(conditions): merges the conditions into the query's
merge(conditions, more) ==
  [k \in DOMAIN conditions \cup DOMAIN more |->
     IF k \in DOMAIN more THEN more[k] ELSE conditions[k]]

\* the four stages, as the query each leaves in this.queryFind
filter_FreshQuery(queryFind, queryString) ==
  [find EXCEPT !.filter = newQuery(queryObj(queryString))]

filter(queryFind, queryString) ==
  [queryFind EXCEPT
     !.filter = merge(queryFind.filter, newQuery(queryObj(queryString)))]

sort_KeepCommas(queryFind, queryString) ==
  IF Truthy(queryString.sort)
    THEN [queryFind EXCEPT !.sort = queryString.sort]
    ELSE [queryFind EXCEPT !.sort = <<"-", "createdAt">>]

sort(queryFind, queryString) ==
  IF Truthy(queryString.sort)
    THEN [queryFind EXCEPT !.sort = join(split(queryString.sort, ","), " ")]
    ELSE [queryFind EXCEPT !.sort = <<"-", "createdAt">>]

limitFields_NoDefault(queryFind, queryString) ==
  IF Truthy(queryString.fields)
    THEN [queryFind EXCEPT !.select = join(split(queryString.fields, ","), " ")]
    ELSE queryFind

limitFields(queryFind, queryString) ==
  IF Truthy(queryString.fields)
    THEN [queryFind EXCEPT !.select = join(split(queryString.fields, ","), " ")]
    ELSE [queryFind EXCEPT !.select = <<"-", "__v">>]

paginate_SkipPages(queryFind, queryString) ==
  LET page == OrDefault(Number(queryString.page), 1)
      limit == OrDefault(Number(queryString.limit), 10)
  IN [queryFind EXCEPT !.skip = Option(page * limit), !.limit = Option(limit)]

paginate(queryFind, queryString) ==
  LET page == OrDefault(Number(queryString.page), 1)
      limit == OrDefault(Number(queryString.limit), 10)
      skip == (page - 1) * limit
  IN [queryFind EXCEPT !.skip = Option(skip), !.limit = Option(limit)]

\* ------------------------------------------------------------------ state
VARIABLES
  NODE_ENV,       \* process.env.NODE_ENV
  pc,             \* where the request is: start, pending, rejected, error, done
  handlerKind,    \* "none", "async" (returns a promise) or "sync"
  outcome,        \* of the wrapped handler: none, fulfilled, rejected, returned
  handlerCalls,   \* times fn was invoked
  nextCalls,      \* times the continuation was given an error
  unhandled,      \* rejections no callback was attached to
  wrapperThrew,   \* the function catchAsync returned raised an exception
  responses,      \* JSON responses written for the request
  thrown,         \* the failure as it was raised
  err,            \* the error object the responder was given (it mutates it)
  responderCalls, \* times the global error handler ran
  result          \* what the global error handler did

requestVars == <<NODE_ENV, pc, handlerKind, outcome, handlerCalls, nextCalls,
                 unhandled, wrapperThrew, responses, thrown, err, responderCalls,
                 result>>

\* a call of the AppError constructor
VARIABLES
  message,        \* first argument of new AppError(message, statusCode)
  statusCode,     \* second argument (0: not given)
  appError        \* the instance the constructor built

ctorVars == <<message, statusCode, appError>>

\* a list request served through the APIFeatures builder
VARIABLES
  queryString,    \* req.query, kept by the builder as this.queryString
  queryFind,      \* this.queryFind: the pending query
  calls,          \* the stages called so far, in call order
  returned,       \* what the last stage call returned
  listPc,         \* where getAllTours is
  reads,          \* storage reads issued for the request
  execs,          \* times the pending query was run
  executed        \* the pending query as it was when it was run

featureVars == <<queryString, queryFind, calls, returned, listPc, reads, execs,
                 executed>>

\* the server process (server.js)
VARIABLES
  boot,              \* how far the start-up script has run
  uncaughtListener,  \* process.on("uncaughtException") has been called
  rejectionListener, \* process.on("unhandledRejection") has been called
  server,            \* the handle app.listen returned: none, listening, closing, closed
  inflight,          \* requests received and not yet answered
  served,            \* requests received so far
  pendingEarly,      \* a promise rejected during start-up awaits its event
  pendingLate,       \* promises rejected after start-up await their event
  rejections,        \* promises rejected so far
  closeCalls,        \* calls of server.close
  earlyHandled,      \* the listener has run for a start-up rejection
  exited,            \* process.exit has been called
  exitCode,          \* with this code
  exitBy             \* by this listener

serverVars == <<boot, uncaughtListener, rejectionListener, server, inflight,
                served, pendingEarly, pendingLate, rejections, closeCalls,
                earlyHandled, exited, exitCode, exitBy>>

\* a request on its way through the application's middleware stack
VARIABLES
  route,          \* the route the request matches
  method,         \* req.method
  originalUrl,    \* req.originalUrl
  body,           \* req.body: which of email and password it has
  ran,            \* the entries of the stack that have run, in order
  lookups,        \* storage operations issued for the request
  lookup,         \* how the storage operation ended
  written         \* the status code of the response the handler wrote itself

routeVars == <<route, method, originalUrl, body, ran, lookups, lookup, written>>

requestVarsButPc ==
  <<NODE_ENV, handlerKind, outcome, handlerCalls, nextCalls, unhandled,
    wrapperThrew, responses, thrown, err, responderCalls, result>>

vars == <<requestVars, ctorVars, featureVars, serverVars, routeVars>>

\* what a request leaves alone
notRequest == <<ctorVars, featureVars, serverVars, routeVars>>

\* what a constructor call leaves alone
notCtor == <<requestVars, featureVars, serverVars, routeVars>>

\* what a list request leaves alone
notFeatures == <<requestVars, ctorVars, serverVars, routeVars>>

\* what the server process leaves alone
notServer == <<requestVars, ctorVars, featureVars, routeVars>>

\* what a routed request leaves alone
notRoute == <<ctorVars, featureVars, serverVars>>

\* no request is in the stack
IdleRoute ==
  /\ route = "none"
  /\ method = ""
  /\ originalUrl = Undef
  /\ body = [email |-> FALSE, password |-> FALSE]
  /\ ran = <<>>
  /\ lookups = 0
  /\ lookup = "none"
  /\ written = 0

\* the start-up script has not begun
InitServer ==
  /\ boot = "top"
  /\ uncaughtListener = FALSE
  /\ rejectionListener = FALSE
  /\ server = "none"
  /\ inflight = 0
  /\ served = 0
  /\ pendingEarly = FALSE
  /\ pendingLate = 0
  /\ rejections = 0
  /\ closeCalls = 0
  /\ earlyHandled = FALSE
  /\ exited = FALSE
  /\ exitCode = 0
  /\ exitBy = "none"

NoQuery == [k \in QueryKeys |-> Undef]

\* no list request is being followed
IdleFeatures ==
  /\ queryString = NoQuery
  /\ queryFind = find
  /\ calls = <<>>
  /\ returned = "none"
  /\ listPc = "idle"
  /\ reads = 0
  /\ execs = 0
  /\ executed = find

\* no constructor call is being followed
IdleCtor ==
  /\ message = Undef
  /\ statusCode = 0
  /\ appError = NoError

\* no request is being followed
IdleRequest ==
  /\ NODE_ENV = "test"
  /\ pc = "idle"
  /\ handlerKind = "none"
  /\ outcome = "none"
  /\ handlerCalls = 0
  /\ nextCalls = 0
  /\ unhandled = 0
  /\ wrapperThrew = FALSE
  /\ responses = 0
  /\ thrown = NoError
  /\ err = NoError
  /\ responderCalls = 0
  /\ result = NoResult

Init ==
  /\ NODE_ENV \in {"development", "production", "test"}
  /\ pc = "start"
  /\ handlerKind = "none"
  /\ outcome = "none"
  /\ handlerCalls = 0
  /\ nextCalls = 0
  /\ unhandled = 0
  /\ wrapperThrew = FALSE
  /\ responses = 0
  /\ thrown = NoError
  /\ err = NoError
  /\ responderCalls = 0
  /\ result = NoResult
  /\ IdleCtor
  /\ IdleFeatures
  /\ InitServer
  /\ IdleRoute

\* catchAsync(fn)(req, res, next) with an async fn: fn is called once and
\* returns a pending promise, on which .catch(next) is registered
catchAsync ==
  /\ pc = "start"
  /\ pc' = "pending"
  /\ handlerKind' = "async"
  /\ handlerCalls' = handlerCalls + 1
  /\ UNCHANGED <<NODE_ENV, outcome, nextCalls, unhandled, wrapperThrew, responses,
                 thrown, err, responderCalls, result>>
  /\ UNCHANGED notRequest

\* catchAsync(fn)(req, res, next) with a fn that writes its response and
\* returns undefined: fn(...).catch throws a TypeError out of the wrapper,
\* which the router hands to the error middleware
catchAsyncSync ==
  /\ pc = "start"
  /\ pc' = "error"
  /\ handlerKind' = "sync"
  /\ outcome' = "returned"
  /\ handlerCalls' = handlerCalls + 1
  /\ responses' = responses + 1
  /\ wrapperThrew' = TRUE
  /\ thrown' = CatchOfUndefined
  /\ err' = CatchOfUndefined
  /\ nextCalls' = nextCalls + 1
  /\ UNCHANGED <<NODE_ENV, unhandled, responderCalls, result>>
  /\ UNCHANGED notRequest

\* the handler's promise fulfils: the handler has written its success
\* response (res.status(2xx).json) and the catch callback does not run
HandlerFulfilled_ThenNext ==
  /\ pc = "pending"
  /\ pc' = "error"
  /\ outcome' = "fulfilled"
  /\ responses' = responses + 1
  /\ nextCalls' = nextCalls + 1
  /\ err' = CatchOfUndefined
  /\ UNCHANGED <<NODE_ENV, handlerKind, handlerCalls, unhandled, wrapperThrew,
                 thrown, responderCalls, result>>
  /\ UNCHANGED notRequest

HandlerFulfilled ==
  /\ pc = "pending"
  /\ pc' = "done"
  /\ outcome' = "fulfilled"
  /\ responses' = responses + 1
  /\ UNCHANGED <<NODE_ENV, handlerKind, handlerCalls, nextCalls, unhandled,
                 wrapperThrew, thrown, err, responderCalls, result>>
  /\ UNCHANGED notRequest

\* an awaited operation of the handler fails: its promise rejects with e
HandlerRejected ==
  /\ pc = "pending"
  /\ \E e \in Failures : thrown' = e
  /\ pc' = "rejected"
  /\ outcome' = "rejected"
  /\ UNCHANGED <<NODE_ENV, handlerKind, handlerCalls, nextCalls, unhandled,
                 wrapperThrew, responses, err, responderCalls, result>>
  /\ UNCHANGED notRequest

\* .catch(next): the registered callback passes the rejection to next
catchCallback_Missing ==
  /\ pc = "rejected"
  /\ pc' = "done"
  /\ unhandled' = unhandled + 1
  /\ UNCHANGED <<NODE_ENV, handlerKind, outcome, handlerCalls, nextCalls,
                 wrapperThrew, responses, thrown, err, responderCalls, result>>
  /\ UNCHANGED notRequest

catchCallback ==
  /\ pc = "rejected"
  /\ pc' = "error"
  /\ nextCalls' = nextCalls + 1
  /\ err' = thrown
  /\ UNCHANGED <<NODE_ENV, handlerKind, outcome, handlerCalls, unhandled,
                 wrapperThrew, responses, thrown, responderCalls, result>>
  /\ UNCHANGED notRequest

\* app.use(globalErrorHandler): the router runs it on the forwarded error
ErrorMiddleware ==
  /\ pc = "error"
  /\ result' = globalErrorHandler(err, NODE_ENV, responses > 0)
  /\ err' = result'.err
  /\ responderCalls' = responderCalls + 1
  /\ responses' = IF result'.sent THEN responses + 1 ELSE responses
  /\ pc' = "done"
  /\ UNCHANGED <<NODE_ENV, handlerKind, outcome, handlerCalls, nextCalls,
                 unhandled, wrapperThrew, thrown>>
  /\ UNCHANGED notRequest

Next ==
  \/ catchAsync
  \/ catchAsyncSync
  \/ HandlerFulfilled
  \/ HandlerRejected
  \/ catchCallback
  \/ ErrorMiddleware

Spec == Init /\ [][Next]_vars

\* ------------------------------------------------------------ properties
Answered == pc = "done" /\ responderCalls = 1
Production == NODE_ENV = "production"
Development == NODE_ENV = "development"
resp == result.resp

GenericEnvelope ==
  /\ result.sent
  /\ resp.statusCode = 500
  /\ resp.keys = {"status", "message"}
  /\ resp.status = "error"
  /\ resp.message = GenericMessage

\* C1: in production, an error that is not operational after the translation
\* step is answered with exactly 500 {status: "error", message: "Something
\* went very wrong!"}; its own message and stack are not in the response.
C1_NonOperationalGeneric ==
  (Answered /\ Production /\ result.fault = "none" /\ ~result.translated.isOperational)
    => /\ GenericEnvelope
       /\ resp.message # thrown.message
       /\ "stack" \notin resp.keys /\ resp.stack = ""
       /\ "error" \notin resp.keys /\ resp.error = NoError

C1_Witness ==
  /\ Answered /\ Production /\ result.fault = "none"
  /\ ~result.translated.isOperational
  /\ thrown.name = "TypeError" /\ thrown.message # Undef
  /\ result.sent /\ resp.message = GenericMessage

\* C2: in production, an operational error (an AppError built with message m
\* and statusCode c) is answered with status code c and body exactly
\* {status, message}, message = m and status = the error's status.
C2_OperationalVerbatim ==
  (Answered /\ Production /\ thrown.isOperational /\ handlerKind = "async")
    => /\ result.sent
       /\ resp.statusCode = thrown.statusCode
       /\ resp.keys = {"status", "message"}
       /\ resp.status = thrown.status
       /\ resp.message = thrown.message

\* a production translation rule fires on the copy of the error
RuleApplies(e) ==
  LET error == spread(e)
  IN error.name = "CastError" \/ error.code = 11000 \/ error.name = "ValidationError"

\* C3 (as claimed): an error without a status code is answered, in either
\* environment and whatever else it carries, with status code 500 and
\* status "error".
C3_NoStatusCode500Error ==
  (Answered /\ (Development \/ Production) /\ thrown.statusCode = 0
     /\ handlerKind = "async")
    => result.sent /\ resp.statusCode = 500 /\ resp.status = "error"

\* C3 (amended): an error without a status code, which no production
\* translation rule rewrites, is answered with status code 500; the status
\* is "error" when the error has no status of its own or production answers
\* it as non-operational, and otherwise it is the error's own status.
C3_Amended ==
  (Answered /\ (Development \/ Production) /\ thrown.statusCode = 0
     /\ handlerKind = "async" /\ ~(Production /\ RuleApplies(thrown)))
    => /\ result.sent
       /\ resp.statusCode = 500
       /\ resp.status = IF thrown.status = "" THEN "error"
                        ELSE IF Development \/ thrown.isOperational
                             THEN thrown.status
                        ELSE "error"

C3_Witness ==
  /\ Answered /\ Development /\ handlerKind = "async"
  /\ thrown.statusCode = 0 /\ thrown.status = "fail"
  /\ result.sent /\ resp.statusCode = 500 /\ resp.status = "fail"

\* C4: every error response written in development has the stack and the
\* full error object; no response written in production has a stack or an
\* error field, operational or not.
C4_StackOnlyInDevelopment ==
  (Answered /\ result.sent)
    => /\ Development =>
            /\ {"stack", "error"} \subseteq resp.keys
            /\ resp.stack = thrown.stack /\ resp.stack # ""
            /\ resp.error = err
       /\ Production =>
            /\ "stack" \notin resp.keys /\ resp.stack = ""
            /\ "error" \notin resp.keys /\ resp.error = NoError

C4_Witness ==
  /\ Answered /\ result.sent /\ Production
  /\ result.translated.isOperational
  /\ resp.keys \cap {"stack", "error"} = {}

\* C5: the global error handler never throws; when a translation step
\* fails, the client still gets the generic 500 envelope.
C5_ResponderNeverThrows ==
  (Answered /\ handlerKind = "async")
    => /\ result.fault = "none"
       /\ (Production /\ translate(spread(baselineNormalization(thrown))).threw)
            => GenericEnvelope

\* C6: when a handler wrapped by catchAsync rejects, the failure is passed to
\* next exactly once and reaches the global error handler once, the handler
\* is invoked once, and no rejection is left unhandled.
C6_RejectionForwardedOnce ==
  /\ handlerCalls <= 1
  /\ unhandled = 0
  /\ (outcome = "rejected" /\ pc \in {"error", "done"})
       => handlerCalls = 1 /\ nextCalls = 1 /\ ~wrapperThrew
  /\ (outcome = "rejected" /\ pc = "error") => err = thrown
  /\ (outcome = "rejected" /\ pc = "done") => responderCalls = 1

C6_Witness ==
  /\ outcome = "rejected" /\ pc = "done"
  /\ nextCalls = 1 /\ responderCalls = 1 /\ handlerCalls = 1

\* C7 (as claimed): for every handler, also one that completes synchronously
\* without returning a promise, a successful run through catchAsync sends
\* the handler's response only, calls next with an error zero times, and the
\* wrapper raises no failure.
C7_SuccessTransparent ==
  (outcome \in {"fulfilled", "returned"})
    => ~wrapperThrew /\ nextCalls = 0 /\ responses = 1 /\ responderCalls = 0

\* C7 (amended): the same, for every handler that returns a promise.
C7_Amended ==
  (outcome = "fulfilled")
    => /\ ~wrapperThrew /\ nextCalls = 0 /\ responses = 1 /\ responderCalls = 0
       /\ handlerCalls = 1 /\ pc = "done"

C7_Witness == outcome = "fulfilled" /\ pc = "done" /\ responses = 1

\* C8: in production, a CastError with path p and value v is answered with
\* 400, "fail" and the message "Invalid {p}: {v}.".
C8_CastErrorMessage ==
  (Answered /\ Production /\ thrown.name = "CastError")
    => /\ result.sent
       /\ resp.statusCode = 400
       /\ resp.status = "fail"
       /\ resp.keys = {"status", "message"}
       /\ resp.message = <<"Invalid ">> \o thrown.path \o <<": ">>
                           \o thrown.value \o <<".">>

\* a quoted substring of s: opens at i, closes at j with the same quote
Quoted(s, i, j) == i < j /\ s[i] \in Quotes /\ s[j] = s[i]
HasQuoted(s) == \E i, j \in 1..Len(s) : Quoted(s, i, j)
\* the first one: no quoted substring opens before i, and a quote of the
\* same kind inside it is an escaped one
FirstQuoted(s, i, j) ==
  /\ Quoted(s, i, j)
  /\ \A i2 \in 1..(i - 1) : ~\E j2 \in 1..Len(s) : Quoted(s, i2, j2)
  /\ \A k \in (i + 1)..(j - 1) : s[k] = s[i] => (k - 1 > i /\ s[k - 1] = "\\")

RECURSIVE DotJoined(_)
DotJoined(ms) ==
  IF ms = <<>> THEN <<>>
  ELSE IF Len(ms) = 1 THEN ms[1]
  ELSE DotJoined(SubSeq(ms, 1, Len(ms) - 1)) \o <<". ">> \o ms[Len(ms)]

\* C10: in production, a ValidationError with sub-errors m1..mn is answered
\* with 400, "fail" and "Invalid input data. " followed by m1..mn joined
\* with ". ", no trailing separator.
C10_ValidationMessage ==
  (Answered /\ Production /\ thrown.name = "ValidationError" /\ thrown.hasErrors
     /\ Len(thrown.errors) >= 1)
    => /\ result.sent
       /\ resp.statusCode = 400
       /\ resp.status = "fail"
       /\ resp.message =
            <<"Invalid input data. ">> \o DotJoined(thrown.errors)

\* ------------------------------------------------ AppError constructor calls
MaxStatusCode == 5000

InitCtor ==
  /\ message \in Messages
  /\ statusCode \in 0..MaxStatusCode
  /\ appError = NoError
  /\ IdleRequest
  /\ IdleFeatures
  /\ InitServer
  /\ IdleRoute

\* new AppError(message, statusCode)
NewAppError ==
  /\ appError = NoError
  /\ appError' = AppError(message, statusCode)
  /\ UNCHANGED <<message, statusCode>>
  /\ UNCHANGED notCtor

NextCtor == NewAppError

SpecAppError == InitCtor /\ [][NextCtor]_vars

Constructed == appError # NoError

\* the decimal numeral of n begins with the digit 4
BeginsWith4(n) == \E k \in 0..4 : n \div (10 ^ k) = 4

\* C11 (as stated): the instance is operational, carries the given message
\* and statusCode, and its status is "fail" exactly for statusCode 400..499
\* and "error" for every other statusCode
C11_FailExactly4xx ==
  Constructed =>
    /\ appError.isOperational
    /\ appError.message = message
    /\ appError.statusCode = statusCode
    /\ appError.status = IF statusCode \in 400..499 THEN "fail" ELSE "error"

\* C11 (amended): the instance is operational, carries the given message and
\* statusCode, and its status is "fail" exactly when the decimal numeral of
\* statusCode begins with 4 (4, 40..49, 400..499, 4000..4999), else "error"
C11_Amended ==
  Constructed =>
    /\ appError.isOperational
    /\ appError.message = message
    /\ appError.statusCode = statusCode
    /\ appError.status = IF BeginsWith4(statusCode) THEN "fail" ELSE "error"

\* an instance built with a statusCode outside 400..499 has status "fail"
C11_Witness ==
  /\ Constructed
  /\ statusCode \notin 400..499
  /\ appError.status = "fail"

\* ----------------------------------------------- list requests (getAllTours)
MaxParamLen == 2
MaxListLen == 4

NumAlphabet == {"0", "1", "2", "-", "a"}
ListAlphabet == {"price", "duration", "-", ","}

ParamValues == {Undef} \cup SeqsUpTo(NumAlphabet, MaxParamLen)
FewParamValues == {Undef, <<"0">>, <<"2">>, <<"1", "0">>}
FilterValues == {Undef, <<>>, <<"0">>, <<"2">>, <<"1", "0">>, <<"a">>}
ListValues == {Undef} \cup SeqsUpTo(ListAlphabet, MaxListLen)

\* the query strings followed: pagination parameters, the parameters of each
\* range-capable field next to control and unknown parameters, sort lists and
\* fields lists
QueryStrings ==
  {[NoQuery EXCEPT !.page = p, !.limit = l] :
     p \in ParamValues, l \in FewParamValues}
  \cup {[NoQuery EXCEPT !.page = p, !.limit = l] :
     p \in FewParamValues, l \in ParamValues}
  \cup {[NoQuery EXCEPT !.price = e, !.minPrice = a, !.maxPrice = b,
                        !.page = <<"2">>, !.sort = <<"price">>,
                        !.limit = <<"1", "0">>, !.fields = <<"price">>,
                        !.name = <<"x">>] :
          e \in FilterValues, a \in FilterValues, b \in FilterValues}
  \cup {[NoQuery EXCEPT !.duration = e, !.minDuration = a, !.maxDuration = b,
                        !.difficulty = d] :
          e \in FilterValues, a \in FilterValues, b \in FilterValues,
          d \in {Undef, <<>>, <<"easy">>}}
  \cup {[NoQuery EXCEPT !.sort = l] : l \in ListValues}
  \cup {[NoQuery EXCEPT !.fields = l] : l \in ListValues}

Stages == {"filter", "sort", "limitFields", "paginate"}

InitFeatures ==
  /\ queryString \in QueryStrings
  /\ queryFind = find
  /\ calls = <<>>
  /\ returned = "none"
  /\ listPc = "start"
  /\ reads = 0
  /\ execs = 0
  /\ executed = find
  /\ IdleRequest
  /\ IdleCtor
  /\ InitServer
  /\ IdleRoute

Called(stage) == \E i \in 1..Len(calls) : calls[i] = stage

\* new APIFeatures(Tour.find(), req.query): the query is built, not run
NewAPIFeatures ==
  /\ listPc = "start"
  /\ listPc' = "building"
  /\ queryFind' = find
  /\ UNCHANGED <<queryString, calls, returned, reads, execs, executed>>
  /\ UNCHANGED notFeatures

\* a stage called on the builder replaces this.queryFind and returns this;
\* the builder lets its stages be called in any order
Filter ==
  /\ listPc = "building"
  /\ ~Called("filter")
  /\ queryFind' = filter(queryFind, queryString)
  /\ calls' = Append(calls, "filter")
  /\ returned' = "this"
  /\ UNCHANGED <<queryString, listPc, reads, execs, executed>>
  /\ UNCHANGED notFeatures

\* features.sort()
Sort ==
  /\ listPc = "building"
  /\ ~Called("sort")
  /\ queryFind' = sort(queryFind, queryString)
  /\ calls' = Append(calls, "sort")
  /\ returned' = "this"
  /\ UNCHANGED <<queryString, listPc, reads, execs, executed>>
  /\ UNCHANGED notFeatures

\* features.limitFields()
LimitFields ==
  /\ listPc = "building"
  /\ ~Called("limitFields")
  /\ queryFind' = limitFields(queryFind, queryString)
  /\ calls' = Append(calls, "limitFields")
  /\ returned' = "this"
  /\ UNCHANGED <<queryString, listPc, reads, execs, executed>>
  /\ UNCHANGED notFeatures

\* features.paginate()
Paginate ==
  /\ listPc = "building"
  /\ ~Called("paginate")
  /\ queryFind' = paginate(queryFind, queryString)
  /\ calls' = Append(calls, "paginate")
  /\ returned' = "this"
  /\ UNCHANGED <<queryString, listPc, reads, execs, executed>>
  /\ UNCHANGED notFeatures

\* const tours = await features.queryFind: the pending query is run
awaitQueryFind_AfterFirstStage ==
  /\ listPc = "building"
  /\ Len(calls) >= 1
  /\ \E next \in {"executed", "failed"} : listPc' = next
  /\ execs' = execs + 1
  /\ reads' = reads + 1
  /\ executed' = queryFind
  /\ UNCHANGED <<queryString, queryFind, calls, returned>>
  /\ UNCHANGED notFeatures

awaitQueryFind ==
  /\ listPc = "building"
  /\ Len(calls) = 4
  /\ \E next \in {"executed", "failed"} : listPc' = next
  /\ execs' = execs + 1
  /\ reads' = reads + 1
  /\ executed' = queryFind
  /\ UNCHANGED <<queryString, queryFind, calls, returned>>
  /\ UNCHANGED notFeatures

\* const totalDocuments = await Tour.countDocuments(): a second read, of
\* the collection's size
countDocuments ==
  /\ listPc = "executed"
  /\ \E next \in {"counted", "failed"} : listPc' = next
  /\ reads' = reads + 1
  /\ UNCHANGED <<queryString, queryFind, calls, returned, execs, executed>>
  /\ UNCHANGED notFeatures

\* res.status(200).json(...), or res.status(404).json(...) of the catch block
Respond ==
  /\ listPc \in {"counted", "failed"}
  /\ listPc' = "responded"
  /\ UNCHANGED <<queryString, queryFind, calls, returned, reads, execs, executed>>
  /\ UNCHANGED notFeatures

NextFeatures ==
  \/ NewAPIFeatures
  \/ Filter
  \/ Sort
  \/ LimitFields
  \/ Paginate
  \/ awaitQueryFind
  \/ countDocuments
  \/ Respond

SpecFeatures == InitFeatures /\ [][NextFeatures]_vars

\* a parameter is present when the query string gives it a non-empty value
Present(v) == v # Undef /\ v # <<>>

\* a present parameter that is a decimal numeral, with an optional sign
Numeric(v) ==
  /\ Present(v)
  /\ \/ AllDigits(v)
     \/ Len(v) > 1 /\ v[1] = "-" /\ AllDigits(Tail(v))

\* the query paginate leaves for page number p and page size l
Paged(p, l) ==
  /\ queryFind.skip = Option((p - 1) * l)
  /\ queryFind.limit = Option(l)

\* C12 (as stated): paginate applies skip = (page-1) * limit and the limit,
\* where page is 1 and limit is 10 exactly when the parameter is absent or
\* non-numeric, and the parameter's numeric value otherwise
C12_DefaultsExactlyWhenAbsentOrNonNumeric ==
  Called("paginate") =>
    Paged(IF Numeric(queryString.page) THEN Number(queryString.page).val ELSE 1,
          IF Numeric(queryString.limit) THEN Number(queryString.limit).val ELSE 10)

\* the numeric value of a numeral is not zero
NonZero(v) == \E i \in 1..Len(v) : v[i] \in {"1", "2", "3", "4", "5", "6", "7", "8", "9"}

\* C12 (amended): paginate applies skip = (page-1) * limit and the limit,
\* where page is 1 and limit is 10 when the parameter is absent, non-numeric
\* or numerically zero, and the parameter's numeric value otherwise
C12_Amended ==
  Called("paginate") =>
    Paged(IF Numeric(queryString.page) /\ NonZero(queryString.page)
            THEN Number(queryString.page).val ELSE 1,
          IF Numeric(queryString.limit) /\ NonZero(queryString.limit)
            THEN Number(queryString.limit).val ELSE 10)

\* page=2, limit=10 has been paginated to skip 10, limit 10
C12_Witness ==
  /\ Called("paginate")
  /\ queryString.page = <<"2">>
  /\ queryString.limit = <<"1", "0">>
  /\ queryFind.skip = Option(10)
  /\ queryFind.limit = Option(10)

\* the parameter names of a range-capable field: exact value, minimum, maximum
RangeFields ==
  {[field |-> "price", exact |-> "price", min |-> "minPrice", max |-> "maxPrice"],
   [field |-> "duration", exact |-> "duration", min |-> "minDuration",
    max |-> "maxDuration"]}

HasEntry(field) == field \in DOMAIN queryFind.filter

\* C13: once filter has run, a range-capable field whose exact value and at
\* least one of whose range bounds are present has the range as its filter
\* entry, not the exact value
C13_RangeOverridesExact ==
  Called("filter") =>
    \A f \in RangeFields :
      /\ Present(queryString[f.exact])
      /\ Present(queryString[f.min]) \/ Present(queryString[f.max])
      => /\ HasEntry(f.field)
         /\ queryFind.filter[f.field].kind = "range"
         /\ queryFind.filter[f.field].value = Undef

\* price=2, minPrice=0, maxPrice=10 has been filtered to price = {gte 0, lte 10}
C13_Witness ==
  /\ Called("filter")
  /\ queryString.price = <<"2">>
  /\ queryString.minPrice = <<"0">>
  /\ queryString.maxPrice = <<"1", "0">>
  /\ HasEntry("price")
  /\ queryFind.filter.price = Range(Bound(num(0)), Bound(num(10)))

\* the bound a present parameter is emitted as: its numeric value (not a
\* number when the parameter is not a numeral)
BoundOf(v) ==
  IF ~Numeric(v) THEN [has |-> TRUE, nan |-> TRUE, val |-> 0]
  ELSE IF v[1] = "-" THEN [has |-> TRUE, nan |-> FALSE, val |-> 0 - DecimalValue(Tail(v))]
  ELSE [has |-> TRUE, nan |-> FALSE, val |-> DecimalValue(v)]

IsRange(field) == HasEntry(field) /\ queryFind.filter[field].kind = "range"

\* C14: once filter has run, a range-capable field has a closed range when
\* both bounds are present, a one-sided range when exactly one is, and no
\* range when neither is; the bounds are the parameters' numeric values
C14_RangeShapes ==
  Called("filter") =>
    \A f \in RangeFields :
      LET min == queryString[f.min]
          max == queryString[f.max]
      IN /\ Present(min) /\ Present(max) =>
              /\ IsRange(f.field)
              /\ queryFind.filter[f.field].gte = BoundOf(min)
              /\ queryFind.filter[f.field].lte = BoundOf(max)
         /\ Present(min) /\ ~Present(max) =>
              /\ IsRange(f.field)
              /\ queryFind.filter[f.field].gte = BoundOf(min)
              /\ queryFind.filter[f.field].lte = NoBound
         /\ ~Present(min) /\ Present(max) =>
              /\ IsRange(f.field)
              /\ queryFind.filter[f.field].gte = NoBound
              /\ queryFind.filter[f.field].lte = BoundOf(max)
         /\ ~Present(min) /\ ~Present(max) => ~IsRange(f.field)

\* minDuration=2 alone has been filtered to duration = {gte 2}
C14_Witness ==
  /\ Called("filter")
  /\ queryString.minDuration = <<"2">>
  /\ ~Present(queryString.maxDuration)
  /\ IsRange("duration")
  /\ queryFind.filter.duration.gte = Bound(num(2))
  /\ queryFind.filter.duration.lte = NoBound

\* C15: the filter of the pending query has keys only among difficulty,
\* duration and price, whatever the query string holds: never page, sort,
\* limit or fields, and never any other parameter name
C15_FilterKeys ==
  DOMAIN queryFind.filter \subseteq {"difficulty", "duration", "price"}

\* filter has run on a query string with the four control parameters, an
\* unknown parameter and range parameters, and has emitted an entry
C15_Witness ==
  /\ Called("filter")
  /\ \A k \in excludedFields \cup {"name", "minPrice"} : Present(queryString[k])
  /\ HasEntry("price")

\* how the storage library reads a sort or select argument: path names
\* separated by spaces, a leading "-" marking descending order or exclusion
Words(str) ==
  IF str = Undef THEN <<>>
  ELSE SelectSeq(split(str, " "), LAMBDA w : w # <<>>)

SortKeysOf(str) ==
  [k \in 1..Len(Words(str)) |->
     LET w == Words(str)[k]
     IN IF w[1] = "-" THEN [field |-> Tail(w), descending |-> TRUE]
        ELSE [field |-> w, descending |-> FALSE]]

ProjectionOf(str) ==
  {IF Words(str)[k][1] = "-"
     THEN [field |-> Tail(Words(str)[k]), include |-> FALSE]
     ELSE [field |-> Words(str)[k], include |-> TRUE] : k \in 1..Len(Words(str))}

\* a parameter that is a comma-separated list f1,...,fn of distinct field
\* names, each optionally preceded by "-"
IsName(t) == t \notin {"-", ",", " "}

FieldList(v) ==
  /\ Present(v)
  /\ IsName(v[Len(v)])
  /\ \A i \in 1..Len(v) :
       /\ v[i] = "," => i > 1 /\ IsName(v[i - 1])
       /\ v[i] = "-" => (i = 1 \/ v[i - 1] = ",") /\ i < Len(v) /\ IsName(v[i + 1])
       /\ IsName(v[i]) => i = 1 \/ v[i - 1] \in {",", "-"}
  /\ \A i, j \in 1..Len(v) : IsName(v[i]) /\ v[i] = v[j] => i = j

\* the positions of f1,...,fn in the list, in order
NamePositions(v) ==
  SelectSeq([i \in 1..Len(v) |-> i], LAMBDA i : IsName(v[i]))

\* C16: once sort has run, a sort parameter f1,...,fn has become the sort
\* keys f1..fn in that order, each descending exactly when it has a leading
\* "-"; an absent sort parameter has become the single key createdAt,
\* descending
C16_SortKeys ==
  Called("sort") =>
    /\ FieldList(queryString.sort) =>
         LET at == NamePositions(queryString.sort)
         IN SortKeysOf(queryFind.sort) =
              [k \in 1..Len(at) |->
                 [field |-> <<queryString.sort[at[k]]>>,
                  descending |-> at[k] > 1 /\ queryString.sort[at[k] - 1] = "-"]]
    /\ ~Present(queryString.sort) =>
         SortKeysOf(queryFind.sort) =
           <<[field |-> <<"createdAt">>, descending |-> TRUE]>>

\* sort=-price,duration has become price descending, then duration ascending
C16_Witness ==
  /\ Called("sort")
  /\ queryString.sort = <<"-", "price", ",", "duration">>
  /\ SortKeysOf(queryFind.sort) =
       <<[field |-> <<"price">>, descending |-> TRUE],
         [field |-> <<"duration">>, descending |-> FALSE]>>

\* C17: once limitFields has run, a fields parameter listing field names has
\* become the inclusion projection of exactly those fields; an absent fields
\* parameter has become the projection that excludes only __v
C17_Projection ==
  Called("limitFields") =>
    /\ /\ FieldList(queryString.fields)
       /\ \A i \in 1..Len(queryString.fields) : queryString.fields[i] # "-"
       => ProjectionOf(queryFind.select) =
            {[field |-> <<queryString.fields[i]>>, include |-> TRUE] :
               i \in {j \in 1..Len(queryString.fields) :
                        IsName(queryString.fields[j])}}
    /\ ~Present(queryString.fields) =>
         ProjectionOf(queryFind.select) =
           {[field |-> <<"__v">>, include |-> FALSE]}

\* fields=price,duration has become the inclusion of price and duration
C17_Witness ==
  /\ Called("limitFields")
  /\ queryString.fields = <<"price", ",", "duration">>
  /\ ProjectionOf(queryFind.select) =
       {[field |-> <<"price">>, include |-> TRUE],
        [field |-> <<"duration">>, include |-> TRUE]}

\* C18: once the four stages have each been called once, in whatever order,
\* the pending query is the one the order filter, sort, limitFields, paginate
\* builds from the same query string; and every stage call returned the
\* builder it was called on
C18_OrderIndependent ==
  /\ Len(calls) = 4 =>
       queryFind =
         paginate(limitFields(sort(filter(find, queryString), queryString),
                              queryString), queryString)
  /\ calls # <<>> => returned = "this"

\* the stages have run in the order paginate, limitFields, sort, filter on a
\* query string that gives every stage a parameter
C18_Witness ==
  /\ calls = <<"paginate", "limitFields", "sort", "filter">>
  /\ returned = "this"
  /\ \A k \in {"page", "limit", "fields", "sort", "price", "minPrice"} :
       Present(queryString[k])
  /\ queryFind.skip = Option(10)
  /\ queryFind.sort = <<"price">>
  /\ queryFind.select = <<"price">>
  /\ IsRange("price")

\* C19: no storage read is issued while the stages run; the pending query is
\* run exactly once, after the fourth stage, and is the same query ever after
C19_ExecutedOnceAfterStages ==
  /\ listPc \in {"start", "building"} => reads = 0 /\ execs = 0
  /\ listPc \in {"executed", "counted", "failed", "responded"} =>
       /\ execs = 1
       /\ Len(calls) = 4
       /\ queryFind = executed

\* a list request has been answered: the query was run once, after the four
\* stages, and the collection was counted
C19_Witness ==
  /\ listPc = "responded"
  /\ Len(calls) = 4
  /\ execs = 1
  /\ reads = 2
  /\ queryFind = executed
  /\ executed.limit = Option(10)

\* -------------------------------------------------- the process (server.js)
MaxInflight == 3
MaxServed == 4
MaxRejections == 2

InitProcess ==
  /\ InitServer
  /\ IdleRoute
  /\ IdleRequest
  /\ IdleCtor
  /\ IdleFeatures

\* process.on("uncaughtException", ...), at the top of the script
RegisterUncaughtException ==
  /\ boot = "top"
  /\ ~exited
  /\ boot' = "guarded"
  /\ uncaughtListener' = TRUE
  /\ UNCHANGED <<rejectionListener, server, inflight, served, pendingEarly,
                 pendingLate, rejections, closeCalls, earlyHandled, exited,
                 exitCode, exitBy>>
  /\ UNCHANGED notServer

\* dotenv.config(...); const app = require("./app")
LoadApp ==
  /\ boot = "guarded"
  /\ ~exited
  /\ boot' = "loaded"
  /\ UNCHANGED <<uncaughtListener, rejectionListener, server, inflight, served,
                 pendingEarly, pendingLate, rejections, closeCalls,
                 earlyHandled, exited, exitCode, exitBy>>
  /\ UNCHANGED notServer

\* mongoose.connect(DB, ...).then(...): no rejection handler is attached;
\* the promise may be rejected by the time the call returns, and its
\* unhandledRejection event waits for the script to finish
Connect ==
  /\ boot = "loaded"
  /\ ~exited
  /\ boot' = "connecting"
  /\ \E rejected \in BOOLEAN :
       /\ pendingEarly' = rejected
       /\ rejections' = IF rejected THEN rejections + 1 ELSE rejections
  /\ UNCHANGED <<uncaughtListener, rejectionListener, server, inflight, served,
                 pendingLate, closeCalls, earlyHandled, exited, exitCode, exitBy>>
  /\ UNCHANGED notServer

\* const server = app.listen(port, ...)
Listen ==
  /\ boot = "connecting"
  /\ ~exited
  /\ boot' = "listened"
  /\ server' = "listening"
  /\ UNCHANGED <<uncaughtListener, rejectionListener, inflight, served,
                 pendingEarly, pendingLate, rejections, closeCalls,
                 earlyHandled, exited, exitCode, exitBy>>
  /\ UNCHANGED notServer

\* process.on("unhandledRejection", ...), the script's last statement
RegisterUnhandledRejection ==
  /\ boot = "listened"
  /\ ~exited
  /\ boot' = "ready"
  /\ rejectionListener' = TRUE
  /\ UNCHANGED <<uncaughtListener, server, inflight, served, pendingEarly,
                 pendingLate, rejections, closeCalls, earlyHandled, exited,
                 exitCode, exitBy>>
  /\ UNCHANGED notServer

\* a connection is accepted and its request dispatched; the events of
\* rejections from the script are emitted before any connection is looked at
RequestArrives ==
  /\ boot = "ready"
  /\ ~exited
  /\ server = "listening"
  /\ ~pendingEarly
  /\ inflight < MaxInflight
  /\ served < MaxServed
  /\ inflight' = inflight + 1
  /\ served' = served + 1
  /\ UNCHANGED <<boot, uncaughtListener, rejectionListener, server,
                 pendingEarly, pendingLate, rejections, closeCalls,
                 earlyHandled, exited, exitCode, exitBy>>
  /\ UNCHANGED notServer

\* a request is answered and its connection ends
RequestCompletes ==
  /\ ~exited
  /\ inflight > 0
  /\ inflight' = inflight - 1
  /\ UNCHANGED <<boot, uncaughtListener, rejectionListener, server, served,
                 pendingEarly, pendingLate, rejections, closeCalls,
                 earlyHandled, exited, exitCode, exitBy>>
  /\ UNCHANGED notServer

\* a promise nothing handles is rejected while the process runs
PromiseRejects ==
  /\ boot = "ready"
  /\ ~exited
  /\ rejections < MaxRejections
  /\ rejections' = rejections + 1
  /\ pendingLate' = pendingLate + 1
  /\ UNCHANGED <<boot, uncaughtListener, rejectionListener, server, inflight,
                 served, pendingEarly, closeCalls, earlyHandled, exited,
                 exitCode, exitBy>>
  /\ UNCHANGED notServer

\* the unhandledRejection listener: server.close(() => { process.exit(1) })
\* stops the server accepting connections and leaves the callback waiting
\* for the open connections to end
unhandledRejection_ExitNow ==
  /\ boot = "ready"
  /\ rejectionListener
  /\ ~exited
  /\ pendingEarly \/ pendingLate > 0
  /\ pendingEarly' = FALSE
  /\ pendingLate' = IF pendingEarly THEN pendingLate ELSE pendingLate - 1
  /\ earlyHandled' = (earlyHandled \/ pendingEarly)
  /\ exited' = TRUE
  /\ exitCode' = 1
  /\ exitBy' = "unhandledRejection"
  /\ UNCHANGED <<boot, uncaughtListener, rejectionListener, server, inflight,
                 served, rejections, closeCalls>>
  /\ UNCHANGED notServer

unhandledRejection ==
  /\ boot = "ready"
  /\ rejectionListener
  /\ ~exited
  /\ pendingEarly \/ pendingLate > 0
  /\ pendingEarly' = FALSE
  /\ pendingLate' = IF pendingEarly THEN pendingLate ELSE pendingLate - 1
  /\ earlyHandled' = (earlyHandled \/ pendingEarly)
  /\ closeCalls' = closeCalls + 1
  /\ server' = IF server = "listening" THEN "closing" ELSE server
  /\ UNCHANGED <<boot, uncaughtListener, rejectionListener, inflight, served,
                 rejections, exited, exitCode, exitBy>>
  /\ UNCHANGED notServer

\* the server's close event, emitted once no connection is open: the
\* callback given to server.close runs process.exit(1)
closeCallback ==
  /\ server = "closing"
  /\ inflight = 0
  /\ ~exited
  /\ server' = "closed"
  /\ exited' = TRUE
  /\ exitCode' = 1
  /\ exitBy' = "unhandledRejection"
  /\ UNCHANGED <<boot, uncaughtListener, rejectionListener, inflight, served,
                 pendingEarly, pendingLate, rejections, closeCalls, earlyHandled>>
  /\ UNCHANGED notServer

\* the uncaughtException listener, for an exception thrown by the script or
\* by a callback: process.exit(1)
uncaughtException_AfterDrain ==
  /\ uncaughtListener
  /\ ~exited
  /\ inflight = 0
  /\ server # "closing"
  /\ exited' = TRUE
  /\ exitCode' = 1
  /\ exitBy' = "uncaughtException"
  /\ UNCHANGED <<boot, uncaughtListener, rejectionListener, server, inflight,
                 served, pendingEarly, pendingLate, rejections, closeCalls,
                 earlyHandled>>
  /\ UNCHANGED notServer

uncaughtException ==
  /\ uncaughtListener
  /\ ~exited
  /\ exited' = TRUE
  /\ exitCode' = 1
  /\ exitBy' = "uncaughtException"
  /\ UNCHANGED <<boot, uncaughtListener, rejectionListener, server, inflight,
                 served, pendingEarly, pendingLate, rejections, closeCalls,
                 earlyHandled>>
  /\ UNCHANGED notServer

NextProcess ==
  \/ RegisterUncaughtException
  \/ LoadApp
  \/ Connect
  \/ Listen
  \/ RegisterUnhandledRejection
  \/ RequestArrives
  \/ RequestCompletes
  \/ PromiseRejects
  \/ unhandledRejection
  \/ closeCallback
  \/ uncaughtException

SpecProcess == InitProcess /\ [][NextProcess]_vars

\* the server's close event is emitted once no connection is open
SpecProcessFair == SpecProcess /\ WF_vars(closeCallback)

\* what holds of every state of a shutdown the unhandledRejection listener
\* started
ShutdownStates ==
  /\ closeCalls > 0 => server \in {"closing", "closed"}
  /\ exitBy = "unhandledRejection" =>
       /\ closeCalls > 0
       /\ server = "closed"
       /\ inflight = 0
       /\ exitCode # 0
  /\ earlyHandled =>
       /\ served = 0
       /\ inflight = 0
       /\ exited => exitCode # 0

\* C20: from the moment the unhandledRejection listener has run, the server
\* accepts no connection; the exit the listener asks for comes only when no
\* request is in flight, with a non-zero code; and for a rejection that
\* occurred before the server handle existed nothing is in flight when the
\* listener runs, and the process exits, with a non-zero code
C20_GracefulShutdown ==
  /\ []ShutdownStates
  /\ [][closeCalls > 0 => served' = served]_vars
  /\ (earlyHandled ~> exited)

\* a rejection while the server was serving requests has ended the process
\* through the close callback
C20_Witness ==
  /\ exitBy = "unhandledRejection"
  /\ ~earlyHandled
  /\ served > 0
  /\ closeCalls = 1
  /\ exitCode = 1

\* C21: once its listener is registered, an uncaught exception ends the
\* process whatever else is going on: the listener's exit is never held back
\* by requests in flight or by a server that is draining, and the exit it
\* causes has a non-zero code
C21_UncaughtExceptionExitsAtOnce ==
  /\ uncaughtListener /\ ~exited => ENABLED uncaughtException
  /\ exitBy = "uncaughtException" => exited /\ exitCode # 0

\* an uncaught exception has ended the process while a shutdown started by
\* an unhandled rejection was draining a request
C21_Witness ==
  /\ exitBy = "uncaughtException"
  /\ exited
  /\ exitCode = 1
  /\ server = "closing"
  /\ closeCalls > 0
  /\ inflight > 0

\* the statements of the script that can fail have begun: the application
\* module has been loaded
AppLoaded == boot \in {"loaded", "connecting", "listened", "ready"}

\* C22: both crash listeners are registered, each once, before the
\* application module is loaded, the storage connection is started and the
\* server listens
C22_ListenersBeforeInitialization ==
  /\ [](AppLoaded => uncaughtListener /\ rejectionListener)
  /\ [][uncaughtListener => uncaughtListener' /\ boot' # "guarded"]_vars
  /\ [][rejectionListener => rejectionListener' /\ boot' = "ready"]_vars

\* C28: server.close is invoked at most once and process.exit is requested
\* at most once in a process lifetime, and once the unhandledRejection
\* listener has run no further request is accepted
C28_ShutdownAtMostOnce ==
  /\ [](closeCalls <= 1)
  /\ [][exited => exited' /\ exitBy' = exitBy /\ exitCode' = exitCode]_vars
  /\ [][closeCalls > 0 => served' = served]_vars

\* C27: once paginate has run, whatever the page and limit parameters, the
\* limit applied is a positive integer, the skip applied is not negative and
\* is (page-1) * limit for a positive integer page
C27_PaginatePositive ==
  Called("paginate") =>
    /\ queryFind.limit.set /\ queryFind.limit.n > 0
    /\ queryFind.skip.set /\ queryFind.skip.n >= 0
    /\ \E page \in 1..(queryFind.skip.n + 1) :
         queryFind.skip.n = (page - 1) * queryFind.limit.n

\* C29: whatever NODE_ENV is, once the global error handler has run on the
\* error of a request not answered before (and has not thrown), exactly one
\* response has been sent for the request
C29_OneResponseInAnyEnvironment ==
  responderCalls > 0 /\ handlerKind = "async" /\ result.fault = "none" =>
    responses = 1

\* ------------------------------------- requests failing with mixed errors
\* an awaited operation of the handler fails with an error that has the
\* marks of several storage errors
HandlerRejectedMixed ==
  /\ pc = "pending"
  /\ \E e \in MixedErrors : thrown' = e
  /\ pc' = "rejected"
  /\ outcome' = "rejected"
  /\ UNCHANGED <<NODE_ENV, handlerKind, handlerCalls, nextCalls, unhandled,
                 wrapperThrew, responses, err, responderCalls, result>>
  /\ UNCHANGED notRequest

NextMixed ==
  \/ catchAsync
  \/ HandlerRejectedMixed
  \/ catchCallback
  \/ ErrorMiddleware

SpecMixed == Init /\ [][NextMixed]_vars

\* the rule a translated error was made by, told by how its message begins
MadeBy(e) ==
  IF e.message = Undef \/ e.message = <<>> THEN "none"
  ELSE IF Head(e.message) = "Invalid " THEN "CastError"
  ELSE IF Head(e.message) = "Duplicate field value: " THEN "11000"
  ELSE IF Head(e.message) = "Invalid input data. " THEN "ValidationError"
  ELSE "none"

\* the first rule, in the order CastError, 11000, ValidationError, that the
\* copied error matches
FirstRule(e) ==
  IF spread(e).name = "CastError" THEN "CastError"
  ELSE IF spread(e).code = 11000 THEN "11000"
  ELSE IF spread(e).name = "ValidationError" THEN "ValidationError"
  ELSE "none"

\* C30: in production an answered error that matches a rule was translated
\* by the first rule it matches and by no other: the error answered is that
\* rule's AppError, operational with status code 400 and status "fail",
\* matching no rule itself, and the response has status code 400 and status
\* "fail"
C30_FirstRuleOnly ==
  Answered /\ Production /\ result.fault = "none" /\ FirstRule(thrown) # "none" =>
    /\ MadeBy(result.translated) = FirstRule(thrown)
    /\ result.translated.isOperational
    /\ result.translated.statusCode = 400
    /\ result.translated.status = "fail"
    /\ result.translated.name \notin {"CastError", "ValidationError"}
    /\ result.translated.code # 11000
    /\ resp.statusCode = 400
    /\ resp.status = "fail"

\* an error that is a CastError, has code 11000 and has validation errors has
\* been answered as the cast error
C30_Witness ==
  /\ Answered
  /\ Production
  /\ result.fault = "none"
  /\ thrown.name = "CastError"
  /\ thrown.nameOwn
  /\ thrown.code = 11000
  /\ thrown.hasErrors
  /\ MadeBy(result.translated) = "CastError"
  /\ resp.statusCode = 400

\* ------------------------------------ a request in the middleware stack
TourRoutes == {"getTour", "updateTour", "deleteTour"}
Routes == TourRoutes \cup {"login", "unmatched"}
Methods == {"GET", "POST", "PATCH", "DELETE"}
Bodies == [email : BOOLEAN, password : BOOLEAN]
UnmatchedUrls == {<<"/api/v1/tour">>, <<"/nope">>}

\* the order in which app.js registers its non-error handlers
Stack == <<"middlewares", "tourRouter", "userRouter", "all">>

\* `Can't find ${req.originalUrl} on this server!`
CantFind(url) == <<"Can't find ">> \o Str(url) \o <<" on this server!">>

InitRoute ==
  /\ NODE_ENV \in {"development", "production", "test"}
  /\ pc = "start"
  /\ handlerKind = "none"
  /\ outcome = "none"
  /\ handlerCalls = 0
  /\ nextCalls = 0
  /\ unhandled = 0
  /\ wrapperThrew = FALSE
  /\ responses = 0
  /\ thrown = NoError
  /\ err = NoError
  /\ responderCalls = 0
  /\ result = NoResult
  /\ IdleCtor
  /\ IdleFeatures
  /\ InitServer
  /\ route \in Routes
  /\ \/ route = "getTour" /\ method = "GET"
     \/ route = "updateTour" /\ method = "PATCH"
     \/ route = "deleteTour" /\ method = "DELETE"
     \/ route = "login" /\ method = "POST"
     \/ route = "unmatched" /\ method \in Methods
  /\ \/ route \in TourRoutes /\ originalUrl = <<"/api/v1/tours/5">>
     \/ route = "login" /\ originalUrl = <<"/api/v1/users/login">>
     \/ route = "unmatched" /\ originalUrl \in UnmatchedUrls
  /\ \/ route = "login" /\ body \in Bodies
     \/ route # "login" /\ body = [email |-> FALSE, password |-> FALSE]
  /\ ran = <<>>
  /\ lookups = 0
  /\ lookup = "none"
  /\ written = 0

\* helmet, static files, body parsers, requestTime, morgan, rate limiter,
\* sanitizers: each calls next() for an API request
middlewares ==
  /\ pc = "start"
  /\ ran' = Append(ran, "middlewares")
  /\ pc' = "tourRouter"
  /\ UNCHANGED requestVarsButPc
  /\ UNCHANGED <<route, method, originalUrl, body, lookups, lookup, written>>
  /\ UNCHANGED notRoute

\* app.use("/api/v1/tours", tourRouter)
tourRouter ==
  /\ pc = "tourRouter"
  /\ ran' = Append(ran, "tourRouter")
  /\ pc' = IF route \in TourRoutes THEN "handler" ELSE "userRouter"
  /\ UNCHANGED requestVarsButPc
  /\ UNCHANGED <<route, method, originalUrl, body, lookups, lookup, written>>
  /\ UNCHANGED notRoute

\* app.use("/api/v1/users", userRouter)
userRouter ==
  /\ pc = "userRouter"
  /\ ran' = Append(ran, "userRouter")
  /\ pc' = IF route = "login" THEN "handler" ELSE "all"
  /\ UNCHANGED requestVarsButPc
  /\ UNCHANGED <<route, method, originalUrl, body, lookups, lookup, written>>
  /\ UNCHANGED notRoute

\* app.all("*", ...): next(new AppError(`Can't find ...`, 404))
all ==
  /\ pc = "all"
  /\ ran' = Append(ran, "all")
  /\ err' = AppError(CantFind(originalUrl), 404)
  /\ nextCalls' = nextCalls + 1
  /\ pc' = "error"
  /\ UNCHANGED <<NODE_ENV, handlerKind, outcome, handlerCalls, unhandled,
                 wrapperThrew, responses, thrown, responderCalls, result>>
  /\ UNCHANGED <<route, method, originalUrl, body, lookups, lookup, written>>
  /\ UNCHANGED notRoute

\* Tour.findById inside try/catch: any result, null included, is answered with
\* 200; a rejection is answered by the catch block with 404
getTour ==
  /\ pc = "handler"
  /\ route = "getTour"
  /\ handlerKind' = "plain"
  /\ handlerCalls' = handlerCalls + 1
  /\ lookups' = lookups + 1
  /\ \/ /\ lookup' \in {"found", "missing"}
        /\ written' = 200
        /\ thrown' = thrown
     \/ /\ lookup' = "rejected"
        /\ \E e \in Failures : thrown' = e
        /\ written' = 404
  /\ responses' = responses + 1
  /\ outcome' = "fulfilled"
  /\ pc' = "done"
  /\ UNCHANGED <<NODE_ENV, nextCalls, unhandled, wrapperThrew, err,
                 responderCalls, result>>
  /\ UNCHANGED <<route, method, originalUrl, body, ran>>
  /\ UNCHANGED notRoute

\* Tour.findByIdAndUpdate inside try/catch: any result, null included, is answered with
\* 200; a rejection is answered by the catch block with 404
updateTour ==
  /\ pc = "handler"
  /\ route = "updateTour"
  /\ handlerKind' = "plain"
  /\ handlerCalls' = handlerCalls + 1
  /\ lookups' = lookups + 1
  /\ \/ /\ lookup' \in {"found", "missing"}
        /\ written' = 200
        /\ thrown' = thrown
     \/ /\ lookup' = "rejected"
        /\ \E e \in Failures : thrown' = e
        /\ written' = 404
  /\ responses' = responses + 1
  /\ outcome' = "fulfilled"
  /\ pc' = "done"
  /\ UNCHANGED <<NODE_ENV, nextCalls, unhandled, wrapperThrew, err,
                 responderCalls, result>>
  /\ UNCHANGED <<route, method, originalUrl, body, ran>>
  /\ UNCHANGED notRoute

\* Tour.findByIdAndDelete inside try/catch: any result, null included, is answered with
\* 204; a rejection is answered by the catch block with 404
deleteTour ==
  /\ pc = "handler"
  /\ route = "deleteTour"
  /\ handlerKind' = "plain"
  /\ handlerCalls' = handlerCalls + 1
  /\ lookups' = lookups + 1
  /\ \/ /\ lookup' \in {"found", "missing"}
        /\ written' = 204
        /\ thrown' = thrown
     \/ /\ lookup' = "rejected"
        /\ \E e \in Failures : thrown' = e
        /\ written' = 404
  /\ responses' = responses + 1
  /\ outcome' = "fulfilled"
  /\ pc' = "done"
  /\ UNCHANGED <<NODE_ENV, nextCalls, unhandled, wrapperThrew, err,
                 responderCalls, result>>
  /\ UNCHANGED <<route, method, originalUrl, body, ran>>
  /\ UNCHANGED notRoute

\* login without the return: the handler goes on after next(err)
login_NoReturn ==
  /\ pc = "handler"
  /\ route = "login"
  /\ handlerKind' = "async"
  /\ handlerCalls' = handlerCalls + 1
  /\ \/ /\ ~body.email \/ ~body.password
        /\ err' = AppError(<<"Please provide email and password!">>, 400)
        /\ nextCalls' = nextCalls + 1
        /\ outcome' = "fulfilled"
        /\ pc' = "error"
        /\ lookups' = lookups + 1
        /\ lookup' \in {"found", "missing"}
        /\ written' = 201
        /\ responses' = responses + 1
        /\ UNCHANGED thrown
     \/ /\ body.email /\ body.password
        /\ lookups' = lookups + 1
        /\ \/ /\ lookup' \in {"found", "missing"}
              /\ written' = 201
              /\ responses' = responses + 1
              /\ outcome' = "fulfilled"
              /\ pc' = "done"
              /\ UNCHANGED <<thrown, err, nextCalls>>
           \/ /\ lookup' = "rejected"
              /\ \E e \in Failures : thrown' = e
              /\ err' = thrown'
              /\ nextCalls' = nextCalls + 1
              /\ outcome' = "rejected"
              /\ pc' = "error"
              /\ UNCHANGED <<written, responses>>
  /\ UNCHANGED <<NODE_ENV, unhandled, wrapperThrew, responderCalls, result>>
  /\ UNCHANGED <<route, method, originalUrl, body, ran>>
  /\ UNCHANGED notRoute

\* catchAsync(login): a missing email or password is forwarded and the
\* handler returns; otherwise User.findOne runs, and its result, null
\* included, is answered with 201; a rejection is forwarded by the wrapper
login ==
  /\ pc = "handler"
  /\ route = "login"
  /\ handlerKind' = "async"
  /\ handlerCalls' = handlerCalls + 1
  /\ \/ /\ ~body.email \/ ~body.password
        /\ err' = AppError(<<"Please provide email and password!">>, 400)
        /\ nextCalls' = nextCalls + 1
        /\ outcome' = "fulfilled"
        /\ pc' = "error"
        /\ UNCHANGED <<thrown, lookups, lookup, written, responses>>
     \/ /\ body.email /\ body.password
        /\ lookups' = lookups + 1
        /\ \/ /\ lookup' \in {"found", "missing"}
              /\ written' = 201
              /\ responses' = responses + 1
              /\ outcome' = "fulfilled"
              /\ pc' = "done"
              /\ UNCHANGED <<thrown, err, nextCalls>>
           \/ /\ lookup' = "rejected"
              /\ \E e \in Failures : thrown' = e
              /\ err' = thrown'
              /\ nextCalls' = nextCalls + 1
              /\ outcome' = "rejected"
              /\ pc' = "error"
              /\ UNCHANGED <<written, responses>>
  /\ UNCHANGED <<NODE_ENV, unhandled, wrapperThrew, responderCalls, result>>
  /\ UNCHANGED <<route, method, originalUrl, body, ran>>
  /\ UNCHANGED notRoute

NextRoute ==
  \/ middlewares
  \/ tourRouter
  \/ userRouter
  \/ all
  \/ getTour
  \/ updateTour
  \/ deleteTour
  \/ login
  \/ ErrorMiddleware

SpecRoute == InitRoute /\ [][NextRoute]_vars

Success(code) == code >= 200 /\ code < 300

\* C23: every failure raised while a request is handled is forwarded to the
\* global error responder, and no handler writes an error response itself:
\* what a handler writes is a 2xx response or nothing.
C23_FailuresForwarded ==
  /\ lookup = "rejected" => nextCalls > 0
  /\ written = 0 \/ Success(written)

\* C24: when the lookup, update or delete of a single tour by id finds no
\* record, the handler forwards the operational 404 "fail" error "No tour
\* found with that ID" and sends no success response.
C24_MissingTourForwards404 ==
  (route \in TourRoutes /\ lookup = "missing")
    => /\ nextCalls = 1
       /\ err = AppError(<<"No tour found with that ID">>, 404)
       /\ written = 0

IsPrefix(s, t) == Len(s) <= Len(t) /\ SubSeq(t, 1, Len(s)) = s

\* C25: the handlers of a request run in registration order; once a handler
\* has forwarded a failure no other non-error handler runs and the forwarding
\* handler does nothing more (login with a missing email or password: no
\* storage lookup, no success response); the global error responder is the
\* next thing to run.
C25_ForwardingEndsTheChain ==
  /\ [](IsPrefix(ran, Stack))
  /\ []((route = "login" /\ handlerCalls > 0
           /\ (~body.email \/ ~body.password))
          => nextCalls = 1 /\ lookups = 0 /\ written = 0)
  /\ [](nextCalls > 0 /\ responderCalls = 0 => pc = "error")
  /\ [][nextCalls > 0
          => /\ ran' = ran
             /\ handlerCalls' = handlerCalls
             /\ lookups' = lookups
             /\ written' = written
             /\ nextCalls' = nextCalls
             /\ responderCalls' = responderCalls + 1]_vars

C25_Witness ==
  /\ route = "login"
  /\ ~body.email
  /\ pc = "done"
  /\ responderCalls = 1
  /\ ran = <<"middlewares", "tourRouter", "userRouter">>

\* C26: a request of any method whose URL no router handles is answered
\* through the global error responder with 404, status "fail" and the message
\* "Can't find {originalUrl} on this server!".
C26_UnmatchedUrl404 ==
  (route = "unmatched" /\ pc = "done")
    => /\ responderCalls = 1
       /\ responses = 1
       /\ result.sent
       /\ resp.statusCode = 404
       /\ resp.status = "fail"
       /\ resp.message = CantFind(originalUrl)

============================================================================
